---- MODULE Spec2Model ----
(***************************************************************************)
(* State-machine model of src/src/main.ts of setup-buildx-action.          *)
(*                                                                         *)
(* The file holds two revisions of the same entry point:                   *)
(*   rev "A"  lines   1..131  (URL build path, buildx.satisfies,           *)
(*                             exec.getExecOutput in cleanup)              *)
(*   rev "B"  lines 133..251  (platform check, uuid builder name,          *)
(*                             semver.satisfies, mexec.exec in cleanup)    *)
(* Both are modelled; the variable rev says which one a behaviour runs.    *)
(*                                                                         *)
(* A string is a sequence of atomic pieces (TLA+ strings), so that         *)
(* template literals are concatenations, .length is Len, .includes is a    *)
(* contiguous-subsequence test and .trim() strips whitespace pieces.       *)
(* An argument vector is a sequence of such strings.                       *)
(***************************************************************************)
EXTENDS Integers, Sequences, FiniteSets, TLC

VARIABLES
    rev,        \* which revision of main.ts runs
    platform,   \* os.platform()
    inputs,     \* context.getInputs()
    IsPost,     \* stateHelper.IsPost of the current invocation
    pc,         \* position of the current invocation
    available,  \* what buildx.isAvailable() answered (FALSE until asked)
    provision,  \* provisioning path taken: "none", "build", "install", "skip"
    buildxVersion, \* result of buildx.getVersion()
    builderName,   \* the local const builderName of run()
    builder,    \* the Builder record returned by buildx.inspect
    debugMode,  \* what core.isDebug() answered (FALSE until asked)
    state,      \* persisted process state (core.saveState / STATE_* env)
    stateLog,   \* every write to the persisted state, in order
    outputs,    \* every context.setOutput(name, value), in order
    issued,     \* every external operation issued, in order
    warnings,   \* every core.warning(message), in order, with the operation it is about
    job         \* core.setFailed: [failed, message], plus the error thrown

vars == <<rev, platform, inputs, IsPost, pc, available, provision, buildxVersion,
          builderName, builder, debugMode, state, stateLog, outputs, issued,
          warnings, job>>

----------------------------------------------------------------------------
(* Bounds of the model *)

\* longest driver-opts input list
MaxDriverOpts == 2

----------------------------------------------------------------------------
(* Strings *)

Empty == <<>>

Str(piece) == <<piece>>

IsSpace(piece) == piece \in {" ", "\n", "\t"}

RECURSIVE TrimStart(_)
TrimStart(s) ==
    IF s # Empty /\ IsSpace(Head(s)) THEN TrimStart(Tail(s)) ELSE s

RECURSIVE TrimEnd(_)
TrimEnd(s) ==
    IF s # Empty /\ IsSpace(s[Len(s)]) THEN TrimEnd(SubSeq(s, 1, Len(s) - 1)) ELSE s

\* String.prototype.trim
Trim(s) == TrimEnd(TrimStart(s))

\* String.prototype.includes
Includes(s, sub) ==
    \E i \in 0..(Len(s) - Len(sub)) : SubSeq(s, i + 1, i + Len(sub)) = sub

\* all sequences over S of length at most n
RECURSIVE SeqsUpTo(_, _)
SeqsUpTo(S, n) ==
    IF n = 0 THEN {<<>>}
    ELSE LET shorter == SeqsUpTo(S, n - 1)
         IN  shorter \cup {Append(s, x) : s \in shorter, x \in S}

----------------------------------------------------------------------------
(* Values the environment can supply *)

Drivers == {Str("docker"), Str("docker-container"), Str("kubernetes")}

DriverOptValues == {Str("image=moby/buildkit:master"), Str("network=host")}

BuildkitdFlagsValues == {Empty, <<"--allow-insecure-entitlement", " ", "security.insecure">>}

EndpointValues == {Empty, Str("unix:///var/run/docker.sock")}

ConfigValues == {Empty, Str(".github/buildkitd.toml")}

\* inputs.version: empty, a release tag, or a source URL
VersionInputs ==
    {Empty, Str("v0.4.2"), <<"https", ":", "//github.com/docker/buildx.git#master">>}

BuilderNameInputs == {Empty, Str("ci")}

\* require('uuid').v4() of rev B
UuidValues == {Str("3f2a"), Str("9c1e")}

Platforms == {"linux", "darwin"}

\* semantic versions <<major, minor, patch>> that buildx.getVersion can resolve
Versions == {<<0, 2, 0>>, <<0, 2, 9>>, <<0, 3, 0>>, <<0, 3, 9>>, <<0, 4, 0>>, <<1, 0, 0>>}

\* builder.node_flags as reported by inspect
NodeFlagsValues ==
    { Empty,
      <<"-", "-", "d", "e", "b", "u", "g">>,
      <<"--allow-insecure-entitlement", " ", "-", "-", "d", "e", "b", "u", "g", "ger">>,
      <<"-", "-", "d", "e", "b", "u">> }

ExitCodes == {0, 1}

\* stderr of a cleanup command: empty, whitespace only, or a message
StderrValues == {Empty, <<"\n">>, <<" ", "no such builder", "\n">>}

Inputs ==
    [ version        : VersionInputs,
      driver         : Drivers,
      driverOpts     : SeqsUpTo(DriverOptValues, MaxDriverOpts),
      buildkitdFlags : BuildkitdFlagsValues,
      endpoint       : EndpointValues,
      config         : ConfigValues,
      use            : BOOLEAN,
      install        : BOOLEAN,
      builderName    : BuilderNameInputs ]

\* the create options of an input record
CreateOptions(in) ==
    <<in.driverOpts, in.buildkitdFlags, in.endpoint, in.config, in.use>>

\* The job lifecycle never branches on the create options (only CreateArgs reads
\* them), so lifecycle runs take them all absent or all present; the command
\* construction is checked over all of Inputs (SpecArgs).
LifecycleInputs ==
    { in \in Inputs :
        CreateOptions(in) \in
          { <<<<>>, Empty, Empty, Empty, FALSE>>,
            << <<Str("image=moby/buildkit:master"), Str("network=host")>>,
               <<"--allow-insecure-entitlement", " ", "security.insecure">>,
               Str("unix:///var/run/docker.sock"), Str(".github/buildkitd.toml"), TRUE>> } }

----------------------------------------------------------------------------
(* Collaborators whose code is outside main.ts *)

\* util.isValidUrl: the string parses as a URL, i.e. starts with scheme ":"
isValidUrl(url) ==
    Len(url) >= 2 /\ url[1] \in {"http", "https", "git"} /\ url[2] = ":"

\* satisfies(version, ">=min"): version is not less than min
satisfies(version, min) ==
    \/ version[1] > min[1]
    \/ version[1] = min[1] /\ version[2] > min[2]
    \/ version[1] = min[1] /\ version[2] = min[2] /\ version[3] >= min[3]

\* the Builder records buildx.inspect(name) can return for a builder of a driver:
\* zero nodes (node fields undefined) or a first node with its flags
Builders(name, driver) ==
    { [ name |-> name, driver |-> driver, has_node |-> FALSE,
        node_name |-> Str("undefined"), node_endpoint |-> Empty,
        node_status |-> Empty, node_flags |-> Empty, node_platforms |-> Empty ] }
    \cup
    { [ name |-> name, driver |-> driver, has_node |-> TRUE,
        node_name |-> name \o Str("0"),
        node_endpoint |-> Str("unix:///var/run/docker.sock"),
        node_status |-> Str("running"), node_flags |-> f,
        node_platforms |-> Str("linux/amd64,linux/arm64") ] : f \in NodeFlagsValues }

NoBuilder ==
    [ name |-> Empty, driver |-> Empty, has_node |-> FALSE, node_name |-> Empty,
      node_endpoint |-> Empty, node_status |-> Empty, node_flags |-> Empty,
      node_platforms |-> Empty ]

\* message of the Error an operation rejects with
ErrorOf(step, code) == <<step, " failed with exit code ", IF code = 1 THEN "1" ELSE "0">>

----------------------------------------------------------------------------
(* Pure parts of run() *)

\* the debug marker looked for in builder.node_flags
DebugMarker == <<"-", "-", "d", "e", "b", "u", "g">>

\* mutant: the docker driver gets a generated name like any other
BuilderNameOf_generated(driver, suffix) == Str("builder-") \o suffix

\* const builderName = inputs.driver == 'docker' ? 'default' : `builder-${...}`
BuilderNameOf(driver, suffix) ==
    IF driver = Str("docker") THEN Str("default") ELSE Str("builder-") \o suffix

\* createArgs.push('--driver-opt', driverOpt) for each driver option, in order
RECURSIVE DriverOptArgs(_)
DriverOptArgs(driverOpts) ==
    IF driverOpts = <<>> THEN <<>>
    ELSE <<Str("--driver-opt"), Head(driverOpts)>> \o DriverOptArgs(Tail(driverOpts))

\* mutant: the driver options and buildkitd flags are appended whatever the version
CreateArgs_ungated(name, in, version) ==
    <<Str("buildx"), Str("create"), Str("--name"), name, Str("--driver"), in.driver>>
    \o DriverOptArgs(in.driverOpts)
    \o (IF in.buildkitdFlags # Empty
        THEN <<Str("--buildkitd-flags"), in.buildkitdFlags>> ELSE <<>>)
    \o (IF in.use THEN <<Str("--use")>> ELSE <<>>)
    \o (IF in.endpoint # Empty THEN <<in.endpoint>> ELSE <<>>)
    \o (IF in.config # Empty THEN <<Str("--config"), in.config>> ELSE <<>>)

\* the argument list of the create-builder command
CreateArgs(name, in, version) ==
    <<Str("buildx"), Str("create"), Str("--name"), name, Str("--driver"), in.driver>>
    \o (IF satisfies(version, <<0, 3, 0>>)
        THEN DriverOptArgs(in.driverOpts)
             \o (IF in.buildkitdFlags # Empty
                 THEN <<Str("--buildkitd-flags"), in.buildkitdFlags>> ELSE <<>>)
        ELSE <<>>)
    \o (IF in.use THEN <<Str("--use")>> ELSE <<>>)
    \o (IF in.endpoint # Empty THEN <<in.endpoint>> ELSE <<>>)
    \o (IF in.config # Empty THEN <<Str("--config"), in.config>> ELSE <<>>)

\* mutant: the builder name is passed from 0.3.0 on, the gate of the create options
BootstrapArgs_gate030(name, version) ==
    <<Str("buildx"), Str("inspect"), Str("--bootstrap")>>
    \o (IF satisfies(version, <<0, 3, 0>>) THEN <<Str("--builder"), name>> ELSE <<>>)

\* the argument list of the bootstrap command
BootstrapArgs(name, version) ==
    <<Str("buildx"), Str("inspect"), Str("--bootstrap")>>
    \o (IF satisfies(version, <<0, 4, 0>>) THEN <<Str("--builder"), name>> ELSE <<>>)

\* `buildx_buildkit_${builder.node_name}`
ContainerNameOf(b) == Str("buildx_buildkit_") \o b.node_name

\* mutant: only the caller's debug mode counts
DebugWanted_callerOnly(isDebug, b) == isDebug

\* core.isDebug() || builder.node_flags?.includes('--debug')
DebugWanted(isDebug, b) ==
    isDebug \/ (b.has_node /\ Includes(b.node_flags, DebugMarker))

\* mutant: the job is failed with a fixed text instead of the error's message
catch_fixedText(message) == [failed |-> TRUE, message |-> Str("setup failed")]

\* the catch block of run(): core.setFailed(error.message)
catch(message) == [failed |-> TRUE, message |-> message]

\* the .then(res => ...) of a cleanup command: the warnings it logs
WarningsA(res) ==
    IF Len(res.stderr) > 0 /\ res.exitCode # 0 THEN <<Trim(res.stderr)>> ELSE <<>>

WarningsB(res) ==
    IF res.stderr # Empty /\ res.exitCode # 0 THEN <<res.stderr>> ELSE <<>>

\* mutant: the logs are read when either the debug flag or a container name is there
LogsGuard_either(st) == st.isDebug = Str("true") \/ Len(st.containerName) > 0

\* stateHelper.IsDebug && stateHelper.containerName.length > 0
LogsGuard(st) == st.isDebug = Str("true") /\ Len(st.containerName) > 0

\* mutant: the removal is not guarded by the persisted name
RemoveGuard_always(st) == Len(st.builderName) >= 0

\* mutant: the removal is guarded like the logs, by the debug flag as well
RemoveGuard_debugOnly(st) == st.isDebug = Str("true") /\ Len(st.builderName) > 0

\* stateHelper.builderName.length > 0
RemoveGuard(st) == Len(st.builderName) > 0

----------------------------------------------------------------------------
(* State *)

NoState == [builderName |-> Empty, containerName |-> Empty, isDebug |-> Empty]

Phase == IF IsPost THEN "post" ELSE "main"

\* one external operation: a docker command run through exec, or a call of a
\* buildx helper; exitCode # 0 stands for the operation failing
Op(step, argv, code, stderr) ==
    [phase |-> Phase, step |-> step, argv |-> argv, exitCode |-> code, stderr |-> stderr]

\* stateHelper.setBuilderName / setContainerName / setDebug
SaveState(log, field, value) ==
    Append(log, [phase |-> Phase, field |-> field, value |-> value])

SetOutput(out, name, value) == Append(out, [name |-> name, value |-> value])

\* the job before its first invocation, its inputs drawn from a set
InitWith(inputSet) ==
    /\ rev \in {"A", "B"}
    /\ platform \in Platforms
    /\ inputs \in inputSet
    /\ IsPost = FALSE
    /\ pc = "entry"
    /\ available = FALSE
    /\ provision = "none"
    /\ buildxVersion = <<0, 0, 0>>
    /\ builderName = Empty
    /\ builder = NoBuilder
    /\ debugMode = FALSE
    /\ state = NoState
    /\ stateLog = <<>>
    /\ outputs = <<>>
    /\ issued = <<>>
    /\ warnings = <<>>
    /\ job = [failed |-> FALSE, message |-> Empty]

Init == InitWith(LifecycleInputs)

InitArgs == InitWith(Inputs)

\* mutant: buildx is installed as the default builder whether asked for or not
AfterBoot_always == "install_default"

\* where run() goes after the builder is booted (or after naming it, for docker)
AfterBoot == IF inputs.install THEN "install_default" ELSE "inspect"

\* where run() goes once the builder is named: if (inputs.driver !== 'docker')
AfterName == IF inputs.driver # Str("docker") THEN "create" ELSE AfterBoot

\* where cleanup() goes after the container logs
AfterLogs == IF RemoveGuard(state) THEN "rm" ELSE "exit"

\* a setup operation that can fail: on a non-zero result the try block is left
\* for the catch block, otherwise run() continues at next
SetupOp(step, argv, code, next) ==
    /\ issued' = Append(issued, Op(step, argv, code, Empty))
    /\ IF code # 0
       THEN /\ job' = catch(ErrorOf(step, code))
            /\ pc' = "done"
       ELSE /\ job' = job
            /\ pc' = next

\* if (!stateHelper.IsPost) run(), rev A: run() up to its first await
EntryRunA ==
    /\ pc = "entry" /\ ~IsPost /\ rev = "A"
    /\ pc' = "docker_version"
    /\ UNCHANGED <<rev, platform, inputs, IsPost, available, provision, buildxVersion,
                   builderName, builder, debugMode, state, stateLog, outputs, issued,
                   warnings, job>>

\* if (!stateHelper.IsPost) run(), rev B: the platform check
EntryRunB ==
    /\ pc = "entry" /\ ~IsPost /\ rev = "B"
    /\ IF platform # "linux"
       THEN /\ job' = [failed |-> TRUE, message |-> Str("Only supported on linux platform")]
            /\ pc' = "done"
       ELSE /\ job' = job
            /\ pc' = "get_inputs"
    /\ UNCHANGED <<rev, platform, inputs, IsPost, available, provision, buildxVersion,
                   builderName, builder, debugMode, state, stateLog, outputs, issued,
                   warnings>>

\* mutant: the post-phase flag is not looked at, the second invocation runs
\* run() again
EntryCleanup_ignoresFlag ==
    /\ pc = "entry" /\ IsPost
    /\ pc' = "get_inputs"
    /\ UNCHANGED <<rev, platform, inputs, IsPost, available, provision, buildxVersion,
                   builderName, builder, debugMode, state, stateLog, outputs, issued,
                   warnings, job>>

\* else cleanup(): cleanup() up to its first await
EntryCleanup ==
    /\ pc = "entry" /\ IsPost
    /\ pc' = IF LogsGuard(state) THEN "logs" ELSE AfterLogs
    /\ UNCHANGED <<rev, platform, inputs, IsPost, available, provision, buildxVersion,
                   builderName, builder, debugMode, state, stateLog, outputs, issued,
                   warnings, job>>

\* await exec.exec('docker', ['version'])
DockerVersion ==
    /\ pc = "docker_version"
    /\ \E code \in ExitCodes :
          SetupOp("docker version", <<Str("version")>>, code, "docker_info")
    /\ UNCHANGED <<rev, platform, inputs, IsPost, available, provision, buildxVersion,
                   builderName, builder, debugMode, state, stateLog, outputs, warnings>>

\* await exec.exec('docker', ['info'])
DockerInfo ==
    /\ pc = "docker_info"
    /\ \E code \in ExitCodes :
          SetupOp("docker info", <<Str("info")>>, code, "get_inputs")
    /\ UNCHANGED <<rev, platform, inputs, IsPost, available, provision, buildxVersion,
                   builderName, builder, debugMode, state, stateLog, outputs, warnings>>

\* await context.getInputs(), then the choice of the provisioning path
GetInputs ==
    /\ pc = "get_inputs"
    /\ pc' = IF rev = "A" /\ isValidUrl(inputs.version) THEN "build" ELSE "is_available"
    /\ UNCHANGED <<rev, platform, inputs, IsPost, available, provision, buildxVersion,
                   builderName, builder, debugMode, state, stateLog, outputs, issued,
                   warnings, job>>

\* await buildx.build(inputs.version, dockerConfigHome)
Build ==
    /\ pc = "build"
    /\ provision' = "build"
    /\ \E code \in ExitCodes :
          SetupOp("buildx.build", <<inputs.version>>, code, "get_version")
    /\ UNCHANGED <<rev, platform, inputs, IsPost, available, buildxVersion,
                   builderName, builder, debugMode, state, stateLog, outputs, warnings>>

\* !(await buildx.isAvailable()) || inputs.version
IsAvailable ==
    /\ pc = "is_available"
    /\ \E a \in BOOLEAN :
          /\ available' = a
          /\ issued' = Append(issued, Op("buildx.isAvailable", <<>>, 0, Empty))
          /\ IF ~a \/ inputs.version # Empty
             THEN pc' = "install_buildx" /\ provision' = provision
             ELSE pc' = "get_version" /\ provision' = "skip"
    /\ UNCHANGED <<rev, platform, inputs, IsPost, buildxVersion, builderName, builder,
                   debugMode, state, stateLog, outputs, warnings, job>>

\* await buildx.install(inputs.version || 'latest', dockerConfigHome)
Install ==
    /\ pc = "install_buildx"
    /\ provision' = "install"
    /\ \E code \in ExitCodes :
          SetupOp("buildx.install",
                  <<IF inputs.version # Empty THEN inputs.version ELSE Str("latest")>>,
                  code, "get_version")
    /\ UNCHANGED <<rev, platform, inputs, IsPost, available, buildxVersion,
                   builderName, builder, debugMode, state, stateLog, outputs, warnings>>

\* the builder name of a revision: rev A appends inputs.builderName, rev B a uuid
NameSuffixes == IF rev = "A" THEN {inputs.builderName} ELSE UuidValues

\* buildx.getVersion() rejects
GetVersionFails ==
    /\ pc = "get_version"
    /\ SetupOp("buildx.getVersion", <<>>, 1, "done")
    /\ UNCHANGED <<rev, platform, inputs, IsPost, available, provision, buildxVersion,
                   builderName, builder, debugMode, state, stateLog, outputs, warnings>>

\* const buildxVersion = await buildx.getVersion(); then the builder is named,
\* reported and persisted
GetVersion ==
    /\ pc = "get_version"
    /\ \E v \in Versions, suffix \in NameSuffixes :
          LET name == BuilderNameOf(inputs.driver, suffix) IN
          /\ buildxVersion' = v
          /\ builderName' = name
          /\ outputs' = SetOutput(outputs, "name", name)
          /\ state' = [state EXCEPT !.builderName = name]
          /\ stateLog' = SaveState(stateLog, "builderName", name)
    /\ issued' = Append(issued, Op("buildx.getVersion", <<>>, 0, Empty))
    /\ pc' = AfterName
    /\ UNCHANGED <<rev, platform, inputs, IsPost, available, provision, builder,
                   debugMode, warnings, job>>

\* await exec.exec('docker', createArgs)
Create ==
    /\ pc = "create"
    /\ \E code \in ExitCodes :
          SetupOp("create", CreateArgs(builderName, inputs, buildxVersion), code, "boot")
    /\ UNCHANGED <<rev, platform, inputs, IsPost, available, provision, buildxVersion,
                   builderName, builder, debugMode, state, stateLog, outputs, warnings>>

\* await exec.exec('docker', bootstrapArgs)
Boot ==
    /\ pc = "boot"
    /\ \E code \in ExitCodes :
          SetupOp("bootstrap", BootstrapArgs(builderName, buildxVersion), code, AfterBoot)
    /\ UNCHANGED <<rev, platform, inputs, IsPost, available, provision, buildxVersion,
                   builderName, builder, debugMode, state, stateLog, outputs, warnings>>

\* await exec.exec('docker', ['buildx', 'install'])
InstallDefault ==
    /\ pc = "install_default"
    /\ \E code \in ExitCodes :
          SetupOp("buildx install", <<Str("buildx"), Str("install")>>, code, "inspect")
    /\ UNCHANGED <<rev, platform, inputs, IsPost, available, provision, buildxVersion,
                   builderName, builder, debugMode, state, stateLog, outputs, warnings>>

\* if (inputs.driver == 'docker-container') stateHelper.setContainerName(...)
WithContainerName(st, b) ==
    IF inputs.driver = Str("docker-container")
    THEN [st EXCEPT !.containerName = ContainerNameOf(b)] ELSE st

\* mutant: the container name is persisted at both places that compute it
LogContainerName_twice(log, b) ==
    IF inputs.driver = Str("docker-container")
    THEN SaveState(SaveState(log, "containerName", ContainerNameOf(b)),
                   "containerName", ContainerNameOf(b))
    ELSE log

LogContainerName(log, b) ==
    IF inputs.driver = Str("docker-container")
    THEN SaveState(log, "containerName", ContainerNameOf(b)) ELSE log

\* if (core.isDebug() || builder.node_flags?.includes('--debug')) stateHelper.setDebug('true')
WithDebug(st, isDebug, b) ==
    IF DebugWanted(isDebug, b) THEN [st EXCEPT !.isDebug = Str("true")] ELSE st

LogDebug(log, isDebug, b) ==
    IF DebugWanted(isDebug, b) THEN SaveState(log, "isDebug", Str("true")) ELSE log

\* mutant: the flags and platforms outputs are fed from each other's field
BuilderOutputs_swapped(out, b) ==
    out \o << [name |-> "driver",    value |-> b.driver],
              [name |-> "endpoint",  value |-> b.node_endpoint],
              [name |-> "status",    value |-> b.node_status],
              [name |-> "flags",     value |-> b.node_platforms],
              [name |-> "platforms", value |-> b.node_flags] >>

\* the five outputs written from the inspected builder
BuilderOutputs(out, b) ==
    out \o << [name |-> "driver",    value |-> b.driver],
              [name |-> "endpoint",  value |-> b.node_endpoint],
              [name |-> "status",    value |-> b.node_status],
              [name |-> "flags",     value |-> b.node_flags],
              [name |-> "platforms", value |-> b.node_platforms] >>

\* rev A reads the BuildKit version of a docker-container builder after inspect
ReadsBuildKitVersion == rev = "A" /\ inputs.driver = Str("docker-container")

\* buildx.inspect(builderName) rejects
InspectFails ==
    /\ pc = "inspect"
    /\ SetupOp("buildx.inspect", <<builderName>>, 1, "done")
    /\ UNCHANGED <<rev, platform, inputs, IsPost, available, provision, buildxVersion,
                   builderName, builder, debugMode, state, stateLog, outputs, warnings>>

\* const builder = await buildx.inspect(builderName), the outputs, the container
\* name and, unless the BuildKit version is awaited first, the debug flag
Inspect ==
    /\ pc = "inspect"
    /\ issued' = Append(issued, Op("buildx.inspect", <<builderName>>, 0, Empty))
    /\ \E b \in Builders(builderName, inputs.driver), d \in BOOLEAN :
          /\ builder' = b
          /\ outputs' = BuilderOutputs(outputs, b)
          /\ IF ReadsBuildKitVersion
             THEN /\ state' = WithContainerName(state, b)
                  /\ stateLog' = LogContainerName(stateLog, b)
                  /\ debugMode' = debugMode
                  /\ pc' = "buildkit_version"
             ELSE /\ state' = WithDebug(WithContainerName(state, b), d, b)
                  /\ stateLog' = LogDebug(LogContainerName(stateLog, b), d, b)
                  /\ debugMode' = d
                  /\ pc' = "done"
    /\ UNCHANGED <<rev, platform, inputs, IsPost, available, provision, buildxVersion,
                   builderName, warnings, job>>

\* core.info(await buildx.getBuildKitVersion(...)), then the debug flag
BuildKitVersion ==
    /\ pc = "buildkit_version"
    /\ \E code \in ExitCodes, d \in BOOLEAN :
          /\ SetupOp("buildx.getBuildKitVersion", <<ContainerNameOf(builder)>>, code, "done")
          /\ IF code = 0
             THEN /\ state' = WithDebug(state, d, builder)
                  /\ stateLog' = LogDebug(stateLog, d, builder)
                  /\ debugMode' = d
             ELSE UNCHANGED <<state, stateLog, debugMode>>
    /\ UNCHANGED <<rev, platform, inputs, IsPost, available, provision, buildxVersion,
                   builderName, builder, outputs, warnings>>

\* the host runs the entry point a second time, as the post step of the job,
\* with the post-phase marker set
HostPost ==
    /\ pc = "done" /\ ~IsPost
    /\ IsPost' = TRUE
    /\ pc' = "entry"
    /\ UNCHANGED <<rev, platform, inputs, available, provision, buildxVersion,
                   builderName, builder, debugMode, state, stateLog, outputs, issued,
                   warnings, job>>

\* results a cleanup command can end with
Results == [exitCode : ExitCodes, stderr : StderrValues]

\* exec.getExecOutput(cmd, args, {ignoreReturnCode}): the promise resolves
\* unless the return code is non-zero and not ignored
ExecResolves(ignoreReturnCode, res) == ignoreReturnCode \/ res.exitCode = 0

\* mutant: the return code is not ignored, a failing command rejects
CleanupResolves_throws(res) == ExecResolves(FALSE, res)

\* whether the awaited cleanup command resolves, so that its .then runs and
\* cleanup() goes on. Rev A passes ignoreReturnCode: true. Rev B's mexec.exec
\* hands every result to .then, which tells a failure by !res.success.
CleanupResolves(res) ==
    IF rev = "A" THEN ExecResolves(TRUE, res) ELSE TRUE

\* mutant: the condition is inverted, a warning is logged for successful commands
Warnings_inverted(res) ==
    IF res.stderr # Empty /\ res.exitCode = 0 THEN <<res.stderr>> ELSE <<>>

\* the warnings a cleanup command's .then logs
Warnings(res) == IF rev = "A" THEN WarningsA(res) ELSE WarningsB(res)

CleanupOp(step, argv, res, next) ==
    /\ issued' = Append(issued, Op(step, argv, res.exitCode, res.stderr))
    /\ IF CleanupResolves(res)
       THEN /\ warnings' = warnings \o [k \in DOMAIN Warnings(res) |->
                                [op |-> Len(issued) + 1, message |-> Warnings(res)[k]]]
            /\ pc' = next
       ELSE /\ warnings' = warnings
            /\ pc' = "rejected"

\* docker logs ${stateHelper.containerName}
CleanupLogs ==
    /\ pc = "logs"
    /\ \E res \in Results :
          CleanupOp("logs", <<Str("logs"), state.containerName>>, res, AfterLogs)
    /\ UNCHANGED <<rev, platform, inputs, IsPost, available, provision, buildxVersion,
                   builderName, builder, debugMode, state, stateLog, outputs, job>>

\* docker buildx rm ${stateHelper.builderName}
CleanupRemove ==
    /\ pc = "rm"
    /\ \E res \in Results :
          CleanupOp("rm", <<Str("buildx"), Str("rm"), state.builderName>>, res, "exit")
    /\ UNCHANGED <<rev, platform, inputs, IsPost, available, provision, buildxVersion,
                   builderName, builder, debugMode, state, stateLog, outputs, job>>

Next ==
    \/ EntryRunA
    \/ EntryRunB
    \/ EntryCleanup
    \/ DockerVersion
    \/ DockerInfo
    \/ GetInputs
    \/ Build
    \/ IsAvailable
    \/ Install
    \/ GetVersionFails
    \/ GetVersion
    \/ Create
    \/ Boot
    \/ InstallDefault
    \/ InspectFails
    \/ Inspect
    \/ BuildKitVersion
    \/ HostPost
    \/ CleanupLogs
    \/ CleanupRemove

Spec == Init /\ [][Next]_vars

\* the setup invocation up to the boot of the builder, over all inputs
NextArgs ==
    \/ EntryRunA
    \/ EntryRunB
    \/ DockerVersion
    \/ DockerInfo
    \/ GetInputs
    \/ Build
    \/ IsAvailable
    \/ Install
    \/ GetVersionFails
    \/ GetVersion
    \/ Create
    \/ Boot

SpecArgs == InitArgs /\ [][NextArgs]_vars

----------------------------------------------------------------------------
(* Properties *)

\* positions of the operations of a kind in the log
OpsOf(step) == {i \in DOMAIN issued : issued[i].step = step}

Last(seq) == seq[Len(seq)]

\* the values that follow each occurrence of a flag in an argument list, in order
RECURSIVE ValuesOf(_, _)
ValuesOf(flag, argv) ==
    IF Len(argv) < 2 THEN <<>>
    ELSE IF Head(argv) = flag
         THEN <<argv[2]>> \o ValuesOf(flag, Tail(Tail(argv)))
         ELSE ValuesOf(flag, Tail(argv))

Count(token, argv) == Cardinality({k \in DOMAIN argv : argv[k] = token})

\* the resolved version is below minor release 0.minor.0
Below(version, minor) == version[1] = 0 /\ version[2] < minor

\* C1: with driver "docker", the cleanup that follows setup issues no
\* builder-removal command.
C1_DockerCleanupIssuesNoRemoval ==
    inputs.driver = Str("docker") => OpsOf("rm") = {}

\* C2: with driver "docker", setup issues neither the create-builder nor the
\* bootstrap command, and the builder name written to the outputs and to the
\* persisted state is exactly "default".
C2_DockerIsDefaultBuilder ==
    inputs.driver = Str("docker") =>
        /\ OpsOf("create") = {} /\ OpsOf("bootstrap") = {}
        /\ \A k \in DOMAIN outputs :
              outputs[k].name = "name" => outputs[k].value = <<"default">>
        /\ \A k \in DOMAIN stateLog :
              stateLog[k].field = "builderName" => stateLog[k].value = <<"default">>
        /\ state.builderName \in {<<>>, <<"default">>}
        /\ (\E i \in OpsOf("buildx.getVersion") : issued[i].exitCode = 0) =>
              /\ state.builderName = <<"default">>
              /\ \E k \in DOMAIN outputs : outputs[k].name = "name"

\* C2 witness: a docker-driver setup has succeeded and its cleanup has run
C2_Witness ==
    /\ inputs.driver = Str("docker")
    /\ IsPost /\ pc = "exit" /\ ~job.failed
    /\ state.builderName = <<"default">>
    /\ OpsOf("buildx.inspect") # {}

\* C3: an endpoint, when given, is the last token of the create-builder
\* argument list, whatever the other inputs are.
C3_EndpointIsLastCreateArg ==
    \A i \in OpsOf("create") :
        inputs.endpoint # Empty => Last(issued[i].argv) = inputs.endpoint

\* C4: for a non-docker driver the create arguments hold driver-option and
\* buildkitd-flags arguments iff the resolved version is at least 0.3.0: below
\* it neither appears; from it on there is one --driver-opt pair per driver
\* option, in input order, and one --buildkitd-flags pair iff that input is
\* non-empty.
C4_CreateOptionsGatedAt030 ==
    \A i \in OpsOf("create") :
        LET argv == issued[i].argv IN
        /\ inputs.driver # Str("docker")
        /\ IF Below(buildxVersion, 3)
           THEN /\ Count(<<"--driver-opt">>, argv) = 0
                /\ Count(<<"--buildkitd-flags">>, argv) = 0
           ELSE /\ Count(<<"--driver-opt">>, argv) = Len(inputs.driverOpts)
                /\ ValuesOf(<<"--driver-opt">>, argv) = inputs.driverOpts
                /\ Count(<<"--buildkitd-flags">>, argv)
                      = (IF inputs.buildkitdFlags = <<>> THEN 0 ELSE 1)
                /\ ValuesOf(<<"--buildkitd-flags">>, argv)
                      = (IF inputs.buildkitdFlags = <<>> THEN <<>>
                         ELSE <<inputs.buildkitdFlags>>)

\* C4 witness: a create command at 0.3.0 with two different driver options and
\* buildkitd flags
C4_Witness ==
    /\ OpsOf("create") # {}
    /\ buildxVersion = <<0, 3, 0>>
    /\ Len(inputs.driverOpts) = 2 /\ inputs.driverOpts[1] # inputs.driverOpts[2]
    /\ inputs.buildkitdFlags # <<>>

\* C5: the bootstrap command names the builder just created iff the resolved
\* version is at least 0.4.0; below it the command carries no builder name.
C5_BootstrapNamesBuilderFrom040 ==
    \A i \in OpsOf("bootstrap") :
        /\ \E c \in OpsOf("create") : c < i /\ issued[c].argv[4] = builderName
        /\ issued[i].argv =
              IF Below(buildxVersion, 4)
              THEN <<<<"buildx">>, <<"inspect">>, <<"--bootstrap">>>>
              ELSE <<<<"buildx">>, <<"inspect">>, <<"--bootstrap">>, <<"--builder">>,
                     builderName>>

\* C5 witness: a bootstrap command at exactly 0.4.0
C5_Witness ==
    /\ OpsOf("bootstrap") # {}
    /\ buildxVersion = <<0, 4, 0>>

\* positions of the operations of a phase in the log
PhaseOps(phase) == {i \in DOMAIN issued : issued[i].phase = phase}

\* the setup invocation has failed: an operation of it failed, or rev B found
\* another platform than linux
SetupFailed ==
    \/ \E i \in PhaseOps("main") : issued[i].exitCode # 0
    \/ rev = "B" /\ platform # "linux"

C8_NoNameNoCommand ==
    (IsPost /\ state.builderName = <<>>) =>
        /\ PhaseOps("post") = {}
        /\ pc \in {"entry", "exit"}

\* C8 witness: a cleanup without a persisted name has returned, after a setup
\* that failed before the builder was named
C8_Witness ==
    /\ IsPost /\ pc = "exit"
    /\ state.builderName = <<>>
    /\ job.failed /\ PhaseOps("main") # {}

\* C9: if a step of setup fails, no later setup command is issued and the job is
\* marked failed with the message of that step's error.
C9_FailureAbortsSetup ==
    \A i \in PhaseOps("main") :
        issued[i].exitCode # 0 =>
            /\ \A j \in PhaseOps("main") : j <= i
            /\ job.failed
            /\ job.message = <<issued[i].step, " failed with exit code ", "1">>

\* C9 witness: the create command failed and the cleanup has run since
C9_Witness ==
    /\ pc = "exit"
    /\ \E i \in OpsOf("create") : issued[i].exitCode # 0

\* the setup invocation has ended without failure
SetupSucceeded == (pc = "done" \/ IsPost) /\ ~job.failed

\* node flags of the model that contain the text --debug
FlagsWithDebugMarker ==
    { <<"-", "-", "d", "e", "b", "u", "g">>,
      <<"--allow-insecure-entitlement", " ", "-", "-", "d", "e", "b", "u", "g", "ger">> }

\* C10: at the end of a successful setup the persisted debug flag is true iff
\* the caller's debug mode is on or the inspected builder's node flags contain
\* the debug marker; the flag is written during setup only and cleanup leaves
\* it as it is.
C10_DebugFlagDecidedInSetup ==
    /\ SetupSucceeded =>
          ((state.isDebug = <<"true">>)
              <=> (debugMode \/ builder.node_flags \in FlagsWithDebugMarker))
    /\ state.isDebug \in {<<>>, <<"true">>}
    /\ \A k \in DOMAIN stateLog : stateLog[k].phase = "main"
    /\ Cardinality({k \in DOMAIN stateLog : stateLog[k].field = "isDebug"})
          = (IF state.isDebug = <<"true">> THEN 1 ELSE 0)

\* C10 witness: the caller's debug mode is off, the node flags carry the marker,
\* the flag is persisted and the cleanup has read it
C10_Witness ==
    /\ IsPost /\ pc = "exit" /\ ~job.failed
    /\ ~debugMode
    /\ builder.node_flags \in FlagsWithDebugMarker
    /\ state.isDebug = <<"true">>

\* the source URL among the version inputs
UrlInput == <<"https", ":", "//github.com/docker/buildx.git#master">>

\* provisioning is over: the version resolution has been issued
Provisioned == OpsOf("buildx.getVersion") # {}

\* C11: provisioning takes exactly one of three paths, in this order: build
\* from source when the requested version is a URL; otherwise download and
\* install (the requested version, or "latest") when no binary is available or
\* a version was requested; otherwise nothing. A URL never reaches the
\* download-install path and a present binary is not reinstalled when no
\* version was requested.
C11_ProvisioningPaths ==
    /\ Cardinality(OpsOf("buildx.build")) + Cardinality(OpsOf("buildx.install")) <= 1
    /\ inputs.version = UrlInput => OpsOf("buildx.install") = {}
    /\ \A i \in OpsOf("buildx.build") :
          inputs.version = UrlInput /\ issued[i].argv = <<inputs.version>>
    /\ \A i \in OpsOf("buildx.install") :
          /\ ~available \/ inputs.version # <<>>
          /\ issued[i].argv =
                <<IF inputs.version = <<>> THEN <<"latest">> ELSE inputs.version>>
    /\ Provisioned =>
          /\ inputs.version = UrlInput => OpsOf("buildx.build") # {}
          /\ (inputs.version # UrlInput /\ (~available \/ inputs.version # <<>>))
                => OpsOf("buildx.install") # {}
          /\ (inputs.version = <<>> /\ available)
                => OpsOf("buildx.build") = {} /\ OpsOf("buildx.install") = {}

\* C12: on a host that is not linux, setup fails fast: the job is marked
\* failed, no provisioning, create, boot, install or inspect is issued and no
\* state is persisted.
C12_NonLinuxFailsFast ==
    platform # "linux" =>
        /\ PhaseOps("main") = {}
        /\ stateLog = <<>> /\ state = NoState
        /\ (pc = "done" \/ IsPost) => job.failed

\* the value written to the outputs under a name (the last one, if several)
OutputsOf(name) == {k \in DOMAIN outputs : outputs[k].name = name}

\* successful inspects in the log
InspectsDone == {i \in OpsOf("buildx.inspect") : issued[i].exitCode = 0}

\* C13: after a successful setup the outputs driver, endpoint, status, flags
\* and platforms equal the fields of the Builder record returned by the single
\* inspect of the builder name, and none of the five is written before inspect
\* has succeeded.
C13_OutputsAreInspectedBuilder ==
    /\ Cardinality(OpsOf("buildx.inspect")) <= 1
    /\ \A i \in OpsOf("buildx.inspect") : issued[i].argv = <<builderName>>
    /\ \A k \in DOMAIN outputs :
          outputs[k].name # "name" =>
              /\ InspectsDone # {}
              /\ outputs[k].value =
                    (CASE outputs[k].name = "driver"    -> builder.driver
                       [] outputs[k].name = "endpoint"  -> builder.node_endpoint
                       [] outputs[k].name = "status"    -> builder.node_status
                       [] outputs[k].name = "flags"     -> builder.node_flags
                       [] outputs[k].name = "platforms" -> builder.node_platforms)
    /\ SetupSucceeded =>
          \A n \in {"driver", "endpoint", "status", "flags", "platforms"} :
              Cardinality(OutputsOf(n)) = 1

\* C13 witness: a setup has succeeded on a builder whose node reports flags
\* and platforms
C13_Witness ==
    /\ SetupSucceeded /\ pc = "done"
    /\ builder.has_node /\ builder.node_flags # <<>>
    /\ \E k \in OutputsOf("flags") : outputs[k].value = builder.node_flags

\* writes of a field to the persisted state
WritesOf(field) == {k \in DOMAIN stateLog : stateLog[k].field = field}

\* C14: each persisted field (builder name, container name, debug flag) is
\* written at most once during setup and never during cleanup, on every path,
\* failing ones included.
C14_StateWrittenOncePerField ==
    /\ \A k \in DOMAIN stateLog : stateLog[k].phase = "main"
    /\ \A f \in {"builderName", "containerName", "isDebug"} :
          Cardinality(WritesOf(f)) <= 1
    /\ state.builderName # <<>> <=> WritesOf("builderName") # {}
    /\ state.containerName # <<>> <=> WritesOf("containerName") # {}
    /\ state.isDebug # <<>> <=> WritesOf("isDebug") # {}

\* C14 witness: all three fields were written by a setup that then failed, and
\* the cleanup has run
C14_Witness ==
    /\ pc = "exit"
    /\ Len(stateLog) = 3

\* where a step stands in the order of setup
Rank(step) ==
    CASE step = "docker version"            -> 0
      [] step = "docker info"               -> 1
      [] step = "buildx.isAvailable"        -> 2
      [] step = "buildx.build"              -> 3
      [] step = "buildx.install"            -> 3
      [] step = "buildx.getVersion"         -> 4
      [] step = "create"                    -> 5
      [] step = "bootstrap"                 -> 6
      [] step = "buildx install"            -> 7
      [] step = "buildx.inspect"            -> 8
      [] step = "buildx.getBuildKitVersion" -> 9
      [] OTHER                              -> 10

\* C15: the steps of setup occur in one fixed order, each completed before the
\* next begins and each issued at most once: provisioning, version resolution,
\* create, boot, install-as-default (only if requested), inspect. The version
\* is resolved after provisioning, boot is issued only after a successful
\* create, and for a non-docker driver inspect comes after boot.
C15_SetupStepsInOrder ==
    /\ \A i, j \in PhaseOps("main") :
          i < j => /\ Rank(issued[i].step) < Rank(issued[j].step)
                   /\ issued[i].exitCode = 0
    /\ OpsOf("buildx install") # {} => inputs.install
    /\ (inputs.install /\ OpsOf("buildx.inspect") # {}) => OpsOf("buildx install") # {}
    /\ \A i \in OpsOf("buildx.getVersion") :
          \/ \E k \in OpsOf("buildx.build") \cup OpsOf("buildx.install") : k < i
          \/ provision = "skip"
    /\ \A i \in OpsOf("bootstrap") :
          \E c \in OpsOf("create") : c < i /\ issued[c].exitCode = 0
    /\ \A i \in OpsOf("buildx.inspect") :
          inputs.driver # <<"docker">> =>
              \E b \in OpsOf("bootstrap") : b < i /\ issued[b].exitCode = 0

\* C15 witness: a setup with install-as-default has gone through create, boot,
\* install and inspect
C15_Witness ==
    /\ SetupSucceeded
    /\ OpsOf("create") # {} /\ OpsOf("bootstrap") # {}
    /\ OpsOf("buildx install") # {} /\ OpsOf("buildx.inspect") # {}

\* C16: one invocation runs exactly one of setup and cleanup, chosen by the
\* post-phase flag alone: a setup invocation issues no removal and no
\* container-log command, and a cleanup invocation issues nothing else.
C16_OnePhasePerInvocation ==
    /\ \A i \in PhaseOps("main") : issued[i].step \notin {"logs", "rm"}
    /\ \A i \in PhaseOps("post") : issued[i].step \in {"logs", "rm"}
    /\ IsPost => pc \in {"entry", "logs", "rm", "exit"}
    /\ ~IsPost => pc \notin {"logs", "rm", "exit"}

\* C16 witness: both invocations have run and each has issued commands
C16_Witness ==
    /\ pc = "exit"
    /\ OpsOf("buildx.inspect") # {}
    /\ OpsOf("logs") # {} /\ OpsOf("rm") # {}

\* C17: when setup ends in failure, at whatever step, no output value (name,
\* driver, endpoint, status, flags, platforms) has been written.
C17_NoOutputOnFailure ==
    job.failed => outputs = <<>>

C19_ContainerNameAndLogs ==
    /\ state.containerName # <<>> =>
          /\ inputs.driver = <<"docker-container">>
          /\ InspectsDone # {}
          /\ state.builderName # <<>>
    /\ state.isDebug = <<"true">> => InspectsDone # {}
    /\ \A i \in OpsOf("logs") :
          /\ state.isDebug = <<"true">> /\ state.containerName # <<>>
          /\ issued[i].argv = <<<<"logs">>, state.containerName>>
          /\ \A r \in OpsOf("rm") : i < r
    /\ Cardinality(OpsOf("logs")) <= 1
    /\ (pc = "exit" /\ state.isDebug = <<"true">> /\ state.containerName # <<>>)
          => OpsOf("logs") # {}

\* C19 witness: the logs of a debug docker-container builder were read, then
\* the builder was removed
C19_Witness ==
    /\ pc = "exit"
    /\ \E i \in OpsOf("logs") : \E r \in OpsOf("rm") : i < r

====
